---- MODULE Spec2Model ----
(***************************************************************************)
(* The two orientation widgets of ezmsg-unicorn:                           *)
(*   src/src/ezmsg/unicorn/orientationpane.js  (component Pane)            *)
(*   src/unnamed/part_000                      (component Corrected)       *)
(* Each exports render({model, el}): it builds a three.js scene, attaches  *)
(* the renderer's canvas to el, subscribes one callback to the model's     *)
(* 'orientation' event and draws one frame.  The callback reads            *)
(* model.orientation, builds a quaternion, sets the mesh rotation from it  *)
(* and draws.                                                              *)
(*                                                                         *)
(* Numbers are integers.  Quaternions are <<x, y, z, w>>.  The mesh        *)
(* rotation is kept as the 3x3 matrix (row major, 9 entries) that          *)
(* Euler.setFromQuaternion builds from its argument before it reads the    *)
(* angles off it; q and -q give the same matrix.  The half-turn about an   *)
(* axis has w = cos(pi/2), taken as 0.                                     *)
(***************************************************************************)
EXTENDS Integers, Sequences, FiniteSets, TLC

VARIABLES component, width, height, orientation, mounted, view, delivered, emitted

vars == <<component, width, height, orientation, mounted, view, delivered, emitted>>

\* ---------------------------------------------------------------- bounds
MaxNotify == 3
MaxAbs == 1

\* ---------------------------------------------------------------- inputs
Pane == "orientationpane"
Corrected == "part_000"
Components == {Pane, Corrected}

Dims == {<<640, 480>>, <<320, 240>>}

\* the samples the event-driven specification feeds the model with
Samples == { <<0, 0, 0, 1>>, <<1, 0, 0, 0>>, <<0, 1, 0, 0>>, <<1, 0, 1, 0>>, <<0, 1, 1>> }

Vals == (0 - MaxAbs) .. MaxAbs

\* every sample of 3 or 4 components over Vals
AllSamples == (Vals \X Vals \X Vals \X Vals) \cup (Vals \X Vals \X Vals)

\* ---------------------------------------------------------------- three.js values
Undefined == <<>>

\* model.orientation[k], k counted from 0: undefined past the end
At(o, k) == IF k + 1 <= Len(o) THEN <<o[k + 1]>> ELSE Undefined

Default(a, d) == IF a = Undefined THEN d ELSE a[1]

\* new THREE.Quaternion(x = 0, y = 0, z = 0, w = 1)
NewQuaternion(x, y, z, w) == <<Default(x, 0), Default(y, 0), Default(z, 0), Default(w, 1)>>

\* Quaternion.setFromAxisAngle(axis, Math.PI): (axis * sin(pi/2), cos(pi/2))
HalfTurnAboutX(axis) == <<axis[2], axis[1], axis[3], 0>>
HalfTurnAbout(axis) == <<axis[1], axis[2], axis[3], 0>>

\* a.multiply(b) = multiplyQuaternions(a, b), the Hamilton product a * b
Hamilton(a, b) ==
    << a[1] * b[4] + a[4] * b[1] + a[2] * b[3] - a[3] * b[2],
       a[2] * b[4] + a[4] * b[2] + a[3] * b[1] - a[1] * b[3],
       a[3] * b[4] + a[4] * b[3] + a[1] * b[2] - a[2] * b[1],
       a[4] * b[4] - a[1] * b[1] - a[2] * b[2] - a[3] * b[3] >>

\* Euler.setFromQuaternion(q): the rotation matrix of q (not renormalised)
SetFromQuaternion(q) ==
    LET x == q[1]  y == q[2]  z == q[3]  w == q[4]
    IN << 1 - 2 * (y * y + z * z), 2 * (x * y - w * z),     2 * (x * z + w * y),
          2 * (x * y + w * z),     1 - 2 * (x * x + z * z), 2 * (y * z - w * x),
          2 * (x * z - w * y),     2 * (y * z + w * x),     1 - 2 * (x * x + y * y) >>

\* the rotation of a freshly built Mesh: Euler(0, 0, 0)
DefaultRotation == <<1, 0, 0, 0, 1, 0, 0, 0, 1>>

MatMul(a, b) ==
    [ i \in 1..9 |->
        LET r == (i - 1) \div 3  c == (i - 1) % 3
        IN a[3 * r + 1] * b[c + 1] + a[3 * r + 2] * b[c + 4] + a[3 * r + 3] * b[c + 7] ]

\* ---------------------------------------------------------------- render(): construction
NoQuat == <<>>

Blank ==
    [ camera   |-> [axis |-> "none", tenths |-> 0, aspect |-> <<0, 0>>],
      ref_quat |-> NoQuat,
      rotation |-> <<>>,
      size     |-> <<0, 0>>,
      attached |-> 0,
      handlers |-> 0,
      frames   |-> <<>>,
      assigned |-> <<>>,
      calls    |-> <<>> ]

\* camera.position.y = -0.3 in the pane, camera.position.x = -0.3 in part_000
CameraAxis(c) == IF c = Pane THEN "y" ELSE "x"

\* ref_quat exists only in part_000 (commented out in the pane)
RefQuat(c) == IF c = Corrected THEN HalfTurnAbout(<<0, 1, 0>>) ELSE NoQuat

\* scene, camera, ref_quat, geometry, material, mesh
BuildScene(c, w, h) ==
    [ Blank EXCEPT !.camera = [axis |-> CameraAxis(c), tenths |-> 0 - 3, aspect |-> <<w, h>>],
                   !.ref_quat = RefQuat(c),
                   !.rotation = DefaultRotation ]

\* renderer.setSize(model.width, model.height)
SetSize(v, w, h) == [ v EXCEPT !.size = <<w, h>>, !.calls = Append(@, "setSize") ]

\* el.append(renderer.domElement)
AppendCanvas(v) == [ v EXCEPT !.attached = @ + 1, !.calls = Append(@, "append") ]

\* model.on('orientation', callback)
SubscribeTwice(v) == [ v EXCEPT !.handlers = @ + 2, !.calls = Append(@, "on") ]
Subscribe(v) == [ v EXCEPT !.handlers = @ + 1, !.calls = Append(@, "on") ]

\* renderer.render(scene, camera): the frame shows the mesh as it is now
Draw(v, cause) ==
    [ v EXCEPT !.frames = Append(@, [cause |-> cause, rotation |-> v.rotation,
                                     attached |-> v.attached]),
               !.calls = Append(@, "render") ]

\* the whole of render({model, el})
MountDrawFirst(c, w, h) ==
    Subscribe(AppendCanvas(Draw(SetSize(BuildScene(c, w, h), w, h), "mount")))
MountView(c, w, h) ==
    Draw(Subscribe(AppendCanvas(SetSize(BuildScene(c, w, h), w, h))), "mount")

\* ---------------------------------------------------------------- the 'orientation' callback
\* the arguments of new THREE.Quaternion(...) in the callback
RawOrder(c, o) == NewQuaternion(At(o, 0), At(o, 1), At(o, 2), At(o, 3))
SampleQuat(c, o) ==
    IF c = Pane
    THEN NewQuaternion(At(o, 1), At(o, 2), At(o, 3), At(o, 0))
    ELSE NewQuaternion(At(o, 0), At(o, 1), At(o, 2), At(o, 3))

\* the quaternion handed to mesh.rotation.setFromQuaternion
Premultiplied(c, o, ref) ==
    IF c = Corrected THEN Hamilton(ref, SampleQuat(c, o)) ELSE SampleQuat(c, o)
MeshQuat(c, o, ref) ==
    IF c = Corrected THEN Hamilton(SampleQuat(c, o), ref) ELSE SampleQuat(c, o)

\* mesh.rotation.setFromQuaternion(q)
SetRotation(v, q) ==
    [ v EXCEPT !.rotation = SetFromQuaternion(q),
               !.assigned = Append(@, q),
               !.calls = Append(@, "setFromQuaternion") ]

\* variants of the callback with a slip in them
HandlerDrawFirst(c, v, o) == SetRotation(Draw(v, "orientation"), MeshQuat(c, o, v.ref_quat))
HandlerAccumulate(c, v, o) ==
    LET q == MeshQuat(c, o, v.ref_quat)
    IN Draw([ v EXCEPT !.rotation = MatMul(@, SetFromQuaternion(q)),
                       !.assigned = Append(@, q),
                       !.calls = Append(@, "setFromQuaternion") ], "orientation")
HandlerMovesRef(c, v, o) ==
    LET q == MeshQuat(c, o, v.ref_quat)
    IN Draw(SetRotation([ v EXCEPT !.ref_quat = IF c = Corrected THEN q ELSE @ ], q),
            "orientation")

\* the callback: build quat, set the mesh rotation, draw
Handler(c, v, o) == Draw(SetRotation(v, MeshQuat(c, o, v.ref_quat)), "orientation")

\* the model calls each subscribed callback in turn
RECURSIVE RunHandlers(_, _, _, _)
RunHandlers(c, v, o, n) ==
    IF n = 0 THEN v ELSE RunHandlers(c, Handler(c, v, o), o, n - 1)

\* ---------------------------------------------------------------- actions
Init0 ==
    /\ component \in Components
    /\ \E d \in Dims : width = d[1] /\ height = d[2]
    /\ mounted = FALSE
    /\ view = Blank
    /\ delivered = <<>>
    /\ emitted = 0

Init == Init0 /\ orientation \in Samples

MapInit == Init0 /\ orientation \in AllSamples

\* the host calls render({model, el}) once
Mount ==
    /\ ~mounted
    /\ mounted' = TRUE
    /\ view' = MountView(component, width, height)
    /\ UNCHANGED <<component, width, height, orientation, delivered, emitted>>

\* the model refreshes model.orientation in place
Update ==
    /\ \E s \in Samples : s # orientation /\ orientation' = s
    /\ UNCHANGED <<component, width, height, mounted, view, delivered, emitted>>

\* the model fires 'orientation': every subscribed callback runs
Notify ==
    /\ emitted < MaxNotify
    /\ emitted' = emitted + 1
    /\ view' = RunHandlers(component, [view EXCEPT !.calls = <<>>], orientation, view.handlers)
    /\ delivered' = IF mounted THEN Append(delivered, orientation) ELSE delivered
    /\ UNCHANGED <<component, width, height, orientation, mounted>>

Next == Mount \/ Update \/ Notify

Spec == Init /\ [][Next]_vars

MapNext == Mount \/ Notify

MapSpec == MapInit /\ [][MapNext]_vars

\* ---------------------------------------------------------------- properties
\* the notifications delivered after mount, by position
Delivered == DOMAIN delivered \cap DOMAIN view.assigned

\* the frame drawn for the i-th delivered notification (frame 1 is the mount frame)
FrameOf(i) == view.frames[i + 1]

HasFrame(i) == i + 1 \in DOMAIN view.frames

MountTrace == <<"setSize", "append", "on", "render">>

HandlerTrace == <<"setFromQuaternion", "render">>

YawCorrection == <<0, 1, 0, 0>>

\* C1: render() subscribes exactly one callback at mount; every notification
\* delivered after mount gives exactly one rotation assignment followed by
\* exactly one draw, in that order, inside the same callback run.
C1_OneAssignThenOneDraw ==
    /\ ~mounted => view.handlers = 0 /\ view.frames = <<>> /\ view.assigned = <<>>
    /\ mounted =>
        /\ view.handlers = 1
        /\ Len(view.assigned) = Len(delivered)
        /\ Len(view.frames) = 1 + Len(delivered)
        /\ view.calls = IF delivered = <<>> THEN MountTrace ELSE HandlerTrace
        /\ \A i \in Delivered :
              /\ HasFrame(i)
              /\ FrameOf(i).cause = "orientation"
              /\ FrameOf(i).rotation = SetFromQuaternion(view.assigned[i])

C1_Witness == mounted /\ Len(delivered) >= 2 /\ view.calls = HandlerTrace

\* C2: for samples S1..Sn delivered in order there are exactly n
\* notification-driven frames and the i-th shows the rotation mapped from Si,
\* the value of model.orientation when the callback ran.
C2_FramesFollowSamples ==
    mounted =>
        /\ Len(view.frames) = 1 + Len(delivered)
        /\ \A i \in DOMAIN delivered :
              /\ HasFrame(i)
              /\ FrameOf(i).rotation =
                    SetFromQuaternion(MeshQuat(component, delivered[i], RefQuat(component)))

C2_Witness ==
    /\ mounted
    /\ Len(delivered) >= 3
    /\ Len(view.frames) >= 4
    /\ view.frames[2].rotation # view.frames[3].rotation
    /\ view.frames[3].rotation # view.frames[4].rotation
    /\ view.frames[2].rotation # view.frames[4].rotation

\* C3: mount draws exactly one frame that no notification caused; it is drawn
\* with the canvas already attached to el and the mesh at its default
\* rotation, and it comes before every notification-driven frame, whether or
\* not a notification ever arrives.
C3_InitialFrame ==
    mounted =>
        /\ Len(view.frames) >= 1
        /\ view.frames[1] = [cause |-> "mount", rotation |-> DefaultRotation, attached |-> 1]
        /\ \A i \in DOMAIN view.frames : i > 1 => view.frames[i].cause = "orientation"

C3_Witness == mounted /\ Len(view.frames) = 1 /\ emitted = 0 /\ view.attached = 1

\* C4: in part_000 the quaternion given to the mesh for a sample
\* (o0, o1, o2, o3) is sample * correction with the sample in raw order,
\* that is (-o2, o3, o0, -o1), and not correction * sample.
C4_SampleTimesCorrection ==
    component = Corrected =>
        \A i \in Delivered :
            Len(delivered[i]) = 4 =>
                LET o == delivered[i]
                    q == view.assigned[i]
                IN /\ q = <<0 - o[3], o[4], o[1], 0 - o[2]>>
                   /\ q = Hamilton(o, YawCorrection)
                   /\ (Hamilton(YawCorrection, o) # Hamilton(o, YawCorrection)
                        => q # Hamilton(YawCorrection, o))
                   /\ HasFrame(i) /\ FrameOf(i).rotation = SetFromQuaternion(q)

C4_Witness ==
    /\ component = Corrected
    /\ Len(delivered) >= 1 /\ Len(view.assigned) >= 1
    /\ Len(delivered[1]) = 4
    /\ delivered[1][1] # 0
    /\ delivered[1][2] # 0
    /\ view.assigned[1] # Hamilton(YawCorrection, delivered[1])

\* C5: in orientationpane.js the quaternion given to the mesh for a sample
\* (a, b, c, d) is (x, y, z, w) = (b, c, d, a), with no correction composed.
C5_ReorderedNoCorrection ==
    component = Pane =>
        /\ (mounted => view.ref_quat = NoQuat)
        /\ \A i \in Delivered :
              Len(delivered[i]) = 4 =>
                  LET o == delivered[i]
                  IN /\ view.assigned[i] = <<o[2], o[3], o[4], o[1]>>
                     /\ HasFrame(i)
                     /\ FrameOf(i).rotation = SetFromQuaternion(<<o[2], o[3], o[4], o[1]>>)

C5_Witness ==
    /\ component = Pane
    /\ Len(delivered) >= 1 /\ Len(view.assigned) >= 1
    /\ Len(delivered[1]) = 4
    /\ delivered[1][1] # delivered[1][4]
    /\ delivered[1][2] # delivered[1][3]

\* C6: in part_000 a notification with sample (0, 0, 0, 1) leaves the mesh
\* rotation equal to the half turn about y itself, not the identity.
C6_IdentitySampleGivesCorrection ==
    component = Corrected =>
        \A i \in Delivered :
            delivered[i] = <<0, 0, 0, 1>> =>
                /\ view.assigned[i] = YawCorrection
                /\ view.assigned[i] = view.ref_quat
                /\ HasFrame(i)
                /\ FrameOf(i).rotation = <<0 - 1, 0, 0, 0, 1, 0, 0, 0, 0 - 1>>
                /\ FrameOf(i).rotation # DefaultRotation
                /\ (i = Len(delivered) => view.rotation = SetFromQuaternion(YawCorrection))

C6_Witness ==
    /\ component = Corrected
    /\ width = 640 /\ height = 480
    /\ Len(delivered) >= 1 /\ Len(view.assigned) >= 1
    /\ delivered[Len(delivered)] = <<0, 0, 0, 1>>
    /\ view.rotation # DefaultRotation

\* C7 as stated: in orientationpane.js the sample (0, 0, 0, 1) gives the
\* identity rotation, mesh quaternion (0, 0, 0, 1).
C7_AsStated ==
    component = Pane =>
        \A i \in Delivered :
            delivered[i] = <<0, 0, 0, 1>> =>
                /\ view.assigned[i] = <<0, 0, 0, 1>>
                /\ HasFrame(i) /\ FrameOf(i).rotation = DefaultRotation

\* C7 amended: in orientationpane.js the sample whose FIRST component is the
\* scalar 1, (1, 0, 0, 0), gives the identity rotation, mesh quaternion
\* (0, 0, 0, 1); the sample (0, 0, 0, 1) gives (0, 0, 1, 0), the half turn
\* about z.
C7_ScalarFirstIdentity ==
    component = Pane =>
        \A i \in Delivered :
            /\ delivered[i] = <<1, 0, 0, 0>> =>
                  /\ view.assigned[i] = <<0, 0, 0, 1>>
                  /\ HasFrame(i) /\ FrameOf(i).rotation = DefaultRotation
            /\ delivered[i] = <<0, 0, 0, 1>> =>
                  /\ view.assigned[i] = <<0, 0, 1, 0>>
                  /\ HasFrame(i)
                  /\ FrameOf(i).rotation = <<0 - 1, 0, 0, 0, 0 - 1, 0, 0, 0, 1>>

C7_Witness ==
    /\ component = Pane
    /\ Len(delivered) >= 2 /\ Len(view.assigned) >= 2
    /\ delivered[1] = <<0, 0, 0, 1>>
    /\ delivered[2] = <<1, 0, 0, 0>>
    /\ view.rotation = DefaultRotation

\* C8: each update is absolute: two notifications with the same sample show
\* the same rotation whatever came between them, and a history ending in
\* sample S leaves the rotation a single notification with S on a fresh view
\* would leave.
C8_AbsoluteUpdate ==
    mounted =>
        /\ \A i, j \in DOMAIN delivered :
              delivered[i] = delivered[j] =>
                  /\ HasFrame(i) /\ HasFrame(j)
                  /\ FrameOf(i).rotation = FrameOf(j).rotation
        /\ (delivered # <<>> =>
              view.rotation =
                  Handler(component, MountView(component, width, height),
                          delivered[Len(delivered)]).rotation)

C8_Witness ==
    /\ mounted
    /\ Len(delivered) >= 3
    /\ delivered[1] = delivered[3]
    /\ delivered[2] # delivered[1]
    /\ view.frames[2].rotation # view.frames[3].rotation
    /\ view.rotation # DefaultRotation

\* C9: a notification that finds model.orientation with 3 components assigns
\* no rotation: the frame drawn shows the rotation of the frame before it.
C9_MalformedKeepsRotation ==
    mounted =>
        /\ Len(view.assigned) = Cardinality({ i \in DOMAIN delivered : Len(delivered[i]) = 4 })
        /\ \A i \in DOMAIN delivered :
              Len(delivered[i]) = 3 =>
                  (HasFrame(i) /\ FrameOf(i).rotation = view.frames[i].rotation)

\* C10: handling a notification changes only the mesh rotation and the drawn
\* frames: camera, renderer size, attached canvas, subscribed callbacks,
\* model.orientation, model.width, model.height and ref_quat stay as they are.
C10_NotifyFrame ==
    [][ emitted' = emitted + 1 =>
            /\ view'.camera = view.camera
            /\ view'.size = view.size
            /\ view'.attached = view.attached
            /\ view'.handlers = view.handlers
            /\ view'.ref_quat = view.ref_quat
            /\ orientation' = orientation
            /\ width' = width /\ height' = height
            /\ (mounted => view'.ref_quat = RefQuat(component)) ]_vars

C10_Witness ==
    /\ mounted
    /\ component = Corrected
    /\ Len(delivered) >= 2
    /\ delivered[1] # delivered[2]
    /\ view.ref_quat = YawCorrection
    /\ view.rotation # DefaultRotation

====
